---- MODULE Spec2Model ----
(***************************************************************************)
(* Model of the ClamAV scanner Lambda                                      *)
(* (aws-migration/lambda/clamav-scanner/index.py).                         *)
(*                                                                         *)
(* One uploaded object lives in the source bucket.  Upload notifications   *)
(* for it are delivered to handler; every invocation walks through         *)
(* handler, parse_event, scan_file, handle_infected_file, tag_object and   *)
(* send_alert, one step per call to an external collaborator (S3, the      *)
(* clamscan subprocess, SNS, the local file system).  Text is modelled as  *)
(* sequences of one-character strings so that lower(), splitext(),         *)
(* strip() and slicing are computed, not assumed.                          *)
(*                                                                         *)
(* Failure model of the collaborators: S3 and SNS calls fail with          *)
(* botocore ClientError (the provider-defined error the source catches);   *)
(* subprocess.run raises TimeoutExpired when the engine runs longer than   *)
(* its timeout and OSError when the executable cannot be started.          *)
(***************************************************************************)
EXTENDS Integers, Sequences, FiniteSets, TLC

\* ------------------------------------------------------------------ bounds
\* Days the clock can show (datetime.utcnow() is read as a day number).
MaxDay == 2

\* Notifications delivered for the object (first delivery, duplicates and
\* retries together).
MaxDeliveries == 2

\* ------------------------------------------------------- program constants
MAX_FILE_SIZE_MB == 500
MAX_FILE_SIZE == MAX_FILE_SIZE_MB * 1024 * 1024
SCAN_TIMEOUT == 300
DETAILS_MAX == 256

SKIP_EXTENSIONS == {
    <<".", "j", "p", "g">>,
    <<".", "j", "p", "e", "g">>,
    <<".", "p", "n", "g">>,
    <<".", "g", "i", "f">>,
    <<".", "w", "e", "b", "p">>,
    <<".", "h", "e", "i", "c">>,
    <<".", "h", "e", "i", "f">>,
    <<".", "a", "v", "i", "f">>,
    <<".", "m", "p", "4">>,
    <<".", "m", "o", "v">>,
    <<".", "w", "e", "b", "m">>,
    <<".", "m", "4", "v">>,
    <<".", "a", "v", "i">>,
    <<".", "m", "p", "3">>,
    <<".", "m", "4", "a">>,
    <<".", "w", "a", "v">>,
    <<".", "a", "a", "c">>,
    <<".", "f", "l", "a", "c">>,
    <<".", "o", "g", "g">> }

\* String literals of the source, as character sequences.
NoThreats == <<"N", "o", " ", "t", "h", "r", "e", "a", "t", "s", " ", "d", "e", "t", "e", "c", "t", "e", "d">>
NotAvailable == <<"C", "l", "a", "m", "A", "V", " ", "n", "o", "t", " ", "a", "v", "a", "i", "l", "a", "b", "l", "e">>
ScanErrorPrefix == <<"S", "c", "a", "n", " ", "e", "r", "r", "o", "r", ":", " ">>
FileTooLarge == <<"F", "i", "l", "e", " ", "t", "o", "o", " ", "l", "a", "r", "g", "e">>
MediaNote == <<"M", "e", "d", "i", "a", " ", "f", "i", "l", "e", " ", "-", " ", "b", "a", "s", "i", "c", " ", "v", "a", "l", "i", "d", "a", "t", "i", "o", "n">>

BodyTooLarge == "File too large - skipped"
BodyMedia == "Media file - basic validation passed"
BodyQuarantined == "Infected file quarantined"
BodyClean == "File scanned - clean"

\* ------------------------------------------------------------ input sets
\* The bucket that holds the uploaded object.
Bucket == "uploads"

\* Keys the uploaded object can have:
\* a.jpg, A.JPG, d/v.Mp4, r.pdf, .mp4, m.mp3/f
Keys == {
    <<"a", ".", "j", "p", "g">>,
    <<"A", ".", "J", "P", "G">>,
    <<"d", "/", "v", ".", "M", "p", "4">>,
    <<"r", ".", "p", "d", "f">>,
    <<".", "m", "p", "4">>,
    <<"m", ".", "m", "p", "3", "/", "f">> }

\* The 'size' entry of the event's object: <<>> when the entry is absent,
\* <<n>> when it is present.
DeclaredSizes == {<<>>, <<1024>>, <<MAX_FILE_SIZE>>, <<MAX_FILE_SIZE + 1>>}

\* Events for the object with key k.  shape is the top-level shape of the
\* event: EventBridge ('detail'), direct S3 notification ('Records'), or
\* neither.
Events(k) ==
    [shape : {"detail", "Records"}, bucket : {Bucket}, key : {k}, size : DeclaredSizes]
    \cup [shape : {"other"}, bucket : {Bucket}, key : {k}, size : {<<>>}]

\* What the clamscan subprocess can do: fail to start, or run for some
\* time and end with a return code and captured output.
EngineRuns ==
    [started : {TRUE}, elapsed : {1}, returncode : {0},
     stdout : {<<>>}, stderr : {<<>>}]
    \cup [started : {TRUE}, elapsed : {1}, returncode : {1, 2},
          stdout : {<<"E", "i", "c", "a", "r", "\n">>}, stderr : {<<>>}]
    \cup [started : {TRUE}, elapsed : {1}, returncode : {1, 2},
          stdout : {<<" ", "\n">>}, stderr : {<<" ", "d", "b", "?">>}]
    \cup [started : {TRUE}, elapsed : {SCAN_TIMEOUT + 1}, returncode : {0},
          stdout : {<<>>}, stderr : {<<>>}]
    \cup [started : {FALSE}, elapsed : {0}, returncode : {0},
          stdout : {<<>>}, stderr : {<<>>}]

\* ------------------------------------------------------- text functions
Upper == <<"A", "B", "C", "D", "E", "F", "G", "H", "I", "J", "K", "L", "M", "N", "O", "P", "Q", "R", "S", "T", "U", "V", "W", "X", "Y", "Z">>
Lower == <<"a", "b", "c", "d", "e", "f", "g", "h", "i", "j", "k", "l", "m", "n", "o", "p", "q", "r", "s", "t", "u", "v", "w", "x", "y", "z">>

LowerChar(c) ==
    IF \E n \in 1..Len(Upper) : Upper[n] = c
    THEN Lower[CHOOSE n \in 1..Len(Upper) : Upper[n] = c]
    ELSE c

\* str.lower(), kept case-sensitive: the plausible slip of comparing the
\* extension without folding the case.
lower_Identity(s) == s

\* str.lower()
lower(s) == [n \in 1..Len(s) |-> LowerChar(s[n])]

\* str.rfind(c): last index of c in s, 0 when absent (1-based).
rfind(s, c) ==
    IF \E n \in 1..Len(s) : s[n] = c
    THEN CHOOSE n \in 1..Len(s) : s[n] = c /\ \A m \in (n+1)..Len(s) : s[m] # c
    ELSE 0

\* os.path.splitext(p)[1]: the extension starts at the last dot of the
\* last path component, unless that component has only dots before it.
splitext(p) ==
    LET sepIndex == rfind(p, "/")
        dotIndex == rfind(p, ".")
    IN  IF dotIndex > sepIndex
           /\ \E f \in (sepIndex + 1)..(dotIndex - 1) : p[f] # "."
        THEN SubSeq(p, dotIndex, Len(p))
        ELSE <<>>

IsSpace(c) == c \in {" ", "\n", "\t", "\r"}

\* str.strip()
strip(s) ==
    IF \A n \in 1..Len(s) : IsSpace(s[n])
    THEN <<>>
    ELSE LET first == CHOOSE n \in 1..Len(s) :
                          ~IsSpace(s[n]) /\ \A m \in 1..(n-1) : IsSpace(s[m])
             last == CHOOSE n \in 1..Len(s) :
                          ~IsSpace(s[n]) /\ \A m \in (n+1)..Len(s) : IsSpace(s[m])
         IN  SubSeq(s, first, last)

\* a or b, on strings: the first one that is not empty.
FirstNonEmpty(a, b) == IF a # <<>> THEN a ELSE b

\* s[:n]
Truncate(s, n) == SubSeq(s, 1, IF Len(s) < n THEN Len(s) ELSE n)

\* ------------------------------------------------ functions of the program
\* parse_event with an unknown shape falling through to defaults instead
\* of raising.
parse_event_NoRaise(e) ==
    [raised |-> "none", bucket |-> e.bucket, key |-> e.key,
     size |-> IF e.size = <<>> THEN 0 ELSE e.size[1]]

\* parse_event: bucket, key and size of the event, size defaulting to 0;
\* ValueError when the event has neither 'detail' nor 'Records'.
parse_event(e) ==
    IF e.shape \in {"detail", "Records"}
    THEN [raised |-> "none", bucket |-> e.bucket, key |-> e.key,
          size |-> IF e.size = <<>> THEN 0 ELSE e.size[1]]
    ELSE [raised |-> "ValueError", bucket |-> "", key |-> <<>>, size |-> 0]

\* The size gate taken from the ceiling itself on (>= instead of >).
TooLarge_Inclusive(size) == size >= MAX_FILE_SIZE

\* handler, line 65: the size gate.
TooLarge(size) == size > MAX_FILE_SIZE

\* handler, lines 71-72: the extension gate.
IsMedia(k) == splitext(lower(k)) \in SKIP_EXTENSIONS

\* handler, lines 64-78: the first call the invocation makes after parsing.
Route(size, k) ==
    IF TooLarge(size) THEN "tag_skipped"
    ELSE IF IsMedia(k) THEN "tag_media"
    ELSE "download"

\* scan_file treating return code 1 like return code 0.
InterpretReturnCode_OneIsClean(run) ==
    IF run.returncode \in {0, 1}
    THEN [infected |-> FALSE, details |-> NoThreats]
    ELSE [infected |-> FALSE,
          details |-> ScanErrorPrefix \o FirstNonEmpty(strip(run.stderr), strip(run.stdout))]

\* scan_file, lines 158-171: the scan result of a completed engine run.
InterpretReturnCode(run) ==
    IF run.returncode = 0
    THEN [infected |-> FALSE, details |-> NoThreats]
    ELSE IF run.returncode = 1
    THEN [infected |-> TRUE,
          details |-> FirstNonEmpty(strip(run.stdout), strip(run.stderr))]
    ELSE [infected |-> FALSE,
          details |-> ScanErrorPrefix \o FirstNonEmpty(strip(run.stderr), strip(run.stdout))]

\* subprocess.run(..., timeout=300): the exception it raises, if any.
RunRaises(run) ==
    IF ~run.started THEN "OSError"
    ELSE IF run.elapsed > SCAN_TIMEOUT THEN "TimeoutExpired"
    ELSE "none"

\* scan_file with a missing engine reported as an error to the caller.
MissingEngine_Raises == [raised |-> "OSError", result |-> <<>>]

\* scan_file, lines 135-137: the outcome when clamscan is not installed.
MissingEngine ==
    [raised |-> "none", result |-> <<[infected |-> FALSE, details |-> NotAvailable]>>]

\* The finally block removing the scratch file only when no exception is
\* in flight.
Cleanup_OnlyOnSuccess(exists, pending) ==
    [exists |-> IF pending = "none" THEN FALSE ELSE exists, raised |-> "none"]

\* scan_file, lines 173-176: the finally block.  It unlinks the scratch
\* file when it exists and does nothing otherwise.
Cleanup(exists, pending) ==
    [exists |-> IF exists THEN FALSE ELSE exists, raised |-> "none"]

\* handler removing an infected object without quarantining it first.
AfterScan_DeleteOnly(result) == IF result.infected THEN "delete" ELSE "tag_clean"

\* handler, lines 80-87: the branch on the scan result.
AfterScan(result) == IF result.infected THEN "copy" ELSE "tag_clean"

\* The quarantine key without its date partition.
QuarantineKey_NoDate(day, b, k) ==
    [prefix |-> "infected", date |-> 0, bucket |-> b, key |-> k]

\* handle_infected_file, line 181: infected/<Y/m/d>/<bucket>/<key>.
QuarantineKey(day, b, k) ==
    [prefix |-> "infected", date |-> day, bucket |-> b, key |-> k]

\* handle_infected_file going on to the delete whatever the copy did.
AfterCopy_AlwaysDelete(ok) == "delete"

\* handle_infected_file, lines 187-201 and 213: after copy_object.
AfterCopy(ok) == IF ok THEN "delete" ELSE "alert_qfail"

\* handle_infected_file with delete_object outside its try block: a failed
\* delete goes straight to the except clause of handler.
AfterDelete_Unguarded(ok) == IF ok THEN "alert_malware" ELSE "except"

\* handle_infected_file treating the delete as best effort: the success
\* alert follows whatever delete_object did.
AfterDelete_IgnoreFailure(ok) == "alert_malware"

\* handle_infected_file, lines 201-205 and 213: after delete_object.
AfterDelete(ok) == IF ok THEN "alert_malware" ELSE "alert_qfail"

\* handler, lines 67, 74 and 86: the arguments of each tag_object call.
TagArgs(at) ==
    IF at = "tag_skipped" THEN [status |-> "skipped", details |-> FileTooLarge]
    ELSE IF at = "tag_media" THEN [status |-> "clean", details |-> MediaNote]
    ELSE [status |-> "clean", details |-> <<>>]

\* handler, lines 68, 75 and 87: the body returned after each tag_object.
BodyAfterTag(at) ==
    IF at = "tag_skipped" THEN BodyTooLarge
    ELSE IF at = "tag_media" THEN BodyMedia
    ELSE BodyClean

\* send_alert letting the ClientError of publish through.
SendAlertRaises_Escalates(topicSet, published) ==
    IF topicSet /\ ~published THEN "ClientError" ELSE "none"

\* send_alert, lines 246-264: what send_alert raises to its caller.  Without
\* a topic it only prints; the ClientError of publish is caught and printed.
SendAlertRaises(topicSet, published) == "none"

\* handle_infected_file swallowing the quarantine failure after its alert.
AfterQuarantineAlert_NoRaise == "return"

\* handle_infected_file, line 222: the re-raise that follows the
\* QUARANTINE_FAILED alert and lands in the except clause of handler.
AfterQuarantineAlert == "except"

\* tag_object letting the ClientError of put_object_tagging through.
TagObjectRaises_Escalates(ok) == IF ok THEN "none" ELSE "ClientError"

\* tag_object, lines 227 and 240-241: what tag_object raises to handler.
\* The ClientError of put_object_tagging is caught and printed.
TagObjectRaises(ok) == "none"

\* tag_object, lines 228-233: the tag set it builds.
MakeTags(status, day, details) ==
    <<[Key |-> "virus-scan", Value |-> <<status>>],
      [Key |-> "scan-date", Value |-> <<day>>]>>
    \o (IF details # <<>>
        THEN <<[Key |-> "scan-details", Value |-> Truncate(details, DETAILS_MAX)]>>
        ELSE <<>>)

\* The value of tag k in tag set ts (<<>> when the tag is missing).
TagValue(ts, k) ==
    IF \E n \in 1..Len(ts) : ts[n].Key = k
    THEN ts[CHOOSE n \in 1..Len(ts) : ts[n].Key = k].Value
    ELSE <<>>

\* ------------------------------------------------------------------ state
\* Invocations of handler that can be in flight.
Invocations == {1, 2}

VARIABLES
    key,            \* key of the uploaded object
    alertTopicSet,  \* ALERT_TOPIC_ARN is configured (non-empty)
    today,          \* the day datetime.utcnow() shows
    srcExists,      \* the object exists in the source bucket
    tags,           \* tag set of the object in the source bucket
    quarantine,     \* objects of the quarantine bucket
    deliveries,     \* notifications delivered so far
    pc,             \* position of each invocation
    event,          \* <<event>> an invocation was given
    tmp,            \* the scratch file of the invocation exists
    engine,         \* <<run>> of the clamscan subprocess, once made
    scan_result,    \* <<result>> scan_file returned / is returning
    exc,            \* exception in flight in the invocation
    qkey,           \* <<quarantine_key>> of handle_infected_file
    tagged,         \* tag set the invocation sent to put_object_tagging
    alerts,         \* send_alert calls of the invocation, in order
    trace,          \* calls to collaborators the invocation made, in order
    ret,            \* <<response>> the invocation returned
    raised          \* exception the invocation propagated to its caller

shared == <<key, alertTopicSet, today, srcExists, tags, quarantine, deliveries>>
locals == <<pc, event, tmp, engine, scan_result, exc, qkey, tagged, alerts, trace, ret, raised>>
vars == <<key, alertTopicSet, today, srcExists, tags, quarantine, deliveries,
          pc, event, tmp, engine, scan_result, exc, qkey, tagged, alerts, trace, ret, raised>>

Init ==
    /\ key \in Keys
    /\ alertTopicSet \in BOOLEAN
    /\ today = 1
    /\ srcExists = TRUE
    /\ tags = <<>>
    /\ quarantine = {}
    /\ deliveries = 0
    /\ pc = [i \in Invocations |-> "idle"]
    /\ event = [i \in Invocations |-> <<>>]
    /\ tmp = [i \in Invocations |-> FALSE]
    /\ engine = [i \in Invocations |-> <<>>]
    /\ scan_result = [i \in Invocations |-> <<>>]
    /\ exc = [i \in Invocations |-> "none"]
    /\ qkey = [i \in Invocations |-> <<>>]
    /\ tagged = [i \in Invocations |-> <<>>]
    /\ alerts = [i \in Invocations |-> <<>>]
    /\ trace = [i \in Invocations |-> <<>>]
    /\ ret = [i \in Invocations |-> <<>>]
    /\ raised = [i \in Invocations |-> "none"]

Call(i, op, ok) == trace' = [trace EXCEPT ![i] = Append(@, [op |-> op, ok |-> ok])]

\* send_alert: the alert is logged only when no topic is configured;
\* otherwise it is published, and a ClientError of publish is swallowed.
send_alert(i, type, err, published) ==
    /\ published => alertTopicSet
    /\ alerts' = [alerts EXCEPT ![i] = Append(@,
                    [type |-> type,
                     quarantine_location |-> IF type = "MALWARE_DETECTED" THEN qkey[i] ELSE <<>>,
                     error |-> err,
                     published |-> published])]
    /\ Call(i, "send_alert", published)

\* handler up to its first call: parse_event, the size gate, the extension
\* gate, and the creation of the scratch file at the start of scan_file.
HandlerEntry(i) ==
    /\ pc[i] = "idle"
    /\ deliveries < MaxDeliveries
    /\ deliveries' = deliveries + 1
    /\ \E e \in Events(key) :
         LET p == parse_event(e) IN
         /\ event' = [event EXCEPT ![i] = <<e>>]
         /\ IF p.raised # "none"
            THEN /\ exc' = [exc EXCEPT ![i] = p.raised]
                 /\ pc' = [pc EXCEPT ![i] = "except"]
                 /\ tmp' = tmp
            ELSE /\ exc' = exc
                 /\ pc' = [pc EXCEPT ![i] = Route(p.size, p.key)]
                 /\ tmp' = [tmp EXCEPT ![i] = (Route(p.size, p.key) = "download")]
    /\ UNCHANGED <<key, alertTopicSet, today, srcExists, tags, quarantine,
                   engine, scan_result, qkey, tagged, alerts, trace, ret, raised>>

\* tag_object followed by the return of handler.
TagObject(i) ==
    /\ pc[i] \in {"tag_skipped", "tag_media", "tag_clean"}
    /\ \E ok \in BOOLEAN :
         LET a == TagArgs(pc[i])
             ts == MakeTags(a.status, today, a.details) IN
         /\ ok => srcExists
         /\ tagged' = [tagged EXCEPT ![i] = ts]
         /\ tags' = IF ok THEN ts ELSE tags
         /\ Call(i, "put_object_tagging", ok)
         /\ IF TagObjectRaises(ok) = "none"
            THEN /\ ret' = [ret EXCEPT ![i] =
                              <<[statusCode |-> 200, body |-> BodyAfterTag(pc[i])]>>]
                 /\ exc' = exc
                 /\ pc' = [pc EXCEPT ![i] = "done"]
            ELSE /\ ret' = ret
                 /\ exc' = [exc EXCEPT ![i] = TagObjectRaises(ok)]
                 /\ pc' = [pc EXCEPT ![i] = "except"]
    /\ UNCHANGED <<key, alertTopicSet, today, srcExists, quarantine, deliveries,
                   event, tmp, engine, scan_result, qkey, alerts, raised>>

\* scan_file: download_file, which writes the scratch file, then the check
\* that clamscan is installed.
Download(i) ==
    /\ pc[i] = "download"
    /\ \E ok \in BOOLEAN, present \in BOOLEAN :
         /\ ok => srcExists
         /\ ~ok => present
         /\ Call(i, "download_file", ok)
         /\ tmp' = [tmp EXCEPT ![i] = IF ok THEN TRUE ELSE @]
         /\ IF ~ok
            THEN /\ exc' = [exc EXCEPT ![i] = "ClientError"]
                 /\ scan_result' = scan_result
                 /\ pc' = [pc EXCEPT ![i] = "finally"]
            ELSE IF ~present
            THEN /\ exc' = [exc EXCEPT ![i] = MissingEngine.raised]
                 /\ scan_result' = [scan_result EXCEPT ![i] = MissingEngine.result]
                 /\ pc' = [pc EXCEPT ![i] = "finally"]
            ELSE /\ exc' = exc
                 /\ scan_result' = scan_result
                 /\ pc' = [pc EXCEPT ![i] = "clamscan"]
    /\ UNCHANGED <<shared, event, engine, qkey, tagged, alerts, ret, raised>>

\* scan_file: subprocess.run of clamscan and the reading of its result.
RunEngine(i) ==
    /\ pc[i] = "clamscan"
    /\ \E run \in EngineRuns :
         /\ engine' = [engine EXCEPT ![i] = <<run>>]
         /\ Call(i, "clamscan", RunRaises(run) = "none")
         /\ IF RunRaises(run) # "none"
            THEN /\ exc' = [exc EXCEPT ![i] = RunRaises(run)]
                 /\ scan_result' = scan_result
            ELSE /\ exc' = exc
                 /\ scan_result' = [scan_result EXCEPT ![i] = <<InterpretReturnCode(run)>>]
    /\ pc' = [pc EXCEPT ![i] = "finally"]
    /\ UNCHANGED <<shared, event, tmp, qkey, tagged, alerts, ret, raised>>

\* The scratch file disappears while the scan is under way (the case the
\* os.path.exists test of the finally block provides for).
ScratchVanishes(i) ==
    /\ pc[i] \in {"download", "clamscan", "finally"}
    /\ tmp[i]
    /\ tmp' = [tmp EXCEPT ![i] = FALSE]
    /\ UNCHANGED <<shared, pc, event, engine, scan_result, exc, qkey, tagged, alerts, trace, ret, raised>>

\* scan_file: the finally block, then what handler does with the outcome:
\* the except clause, handle_infected_file (up to its quarantine key), or
\* the clean tag.
ScanFinally(i) ==
    /\ pc[i] = "finally"
    /\ LET c == Cleanup(tmp[i], exc[i])
           e == IF c.raised # "none" THEN c.raised ELSE exc[i] IN
       /\ tmp' = [tmp EXCEPT ![i] = c.exists]
       /\ exc' = [exc EXCEPT ![i] = e]
       /\ IF e # "none"
          THEN /\ pc' = [pc EXCEPT ![i] = "except"]
               /\ qkey' = qkey
          ELSE /\ pc' = [pc EXCEPT ![i] = AfterScan(scan_result[i][1])]
               /\ qkey' = IF AfterScan(scan_result[i][1]) = "copy"
                          THEN [qkey EXCEPT ![i] = <<QuarantineKey(today, Bucket, key)>>]
                          ELSE qkey
    /\ UNCHANGED <<shared, event, engine, scan_result, tagged, alerts, trace, ret, raised>>

\* handle_infected_file: copy_object to the quarantine bucket.
CopyObject(i) ==
    /\ pc[i] = "copy"
    /\ \E ok \in BOOLEAN :
         /\ ok => srcExists
         /\ Call(i, "copy_object", ok)
         /\ quarantine' =
              IF ok
              THEN {q \in quarantine : q.Key # qkey[i][1]}
                   \cup {[Key |-> qkey[i][1],
                          Metadata |-> [original_bucket |-> Bucket,
                                        original_key |-> key,
                                        scan_result |-> Truncate(scan_result[i][1].details, DETAILS_MAX),
                                        quarantine_date |-> today]]}
              ELSE quarantine
         /\ exc' = [exc EXCEPT ![i] = IF ok THEN @ ELSE "ClientError"]
         /\ pc' = [pc EXCEPT ![i] = AfterCopy(ok)]
    /\ UNCHANGED <<key, alertTopicSet, today, srcExists, tags, deliveries,
                   event, tmp, engine, scan_result, qkey, tagged, alerts, ret, raised>>

\* handle_infected_file: delete_object of the original.
DeleteObject(i) ==
    /\ pc[i] = "delete"
    /\ \E ok \in BOOLEAN :
         /\ Call(i, "delete_object", ok)
         /\ srcExists' = IF ok THEN FALSE ELSE srcExists
         /\ tags' = IF ok THEN <<>> ELSE tags
         /\ exc' = [exc EXCEPT ![i] = IF ok THEN @ ELSE "ClientError"]
         /\ pc' = [pc EXCEPT ![i] = AfterDelete(ok)]
    /\ UNCHANGED <<key, alertTopicSet, today, quarantine, deliveries,
                   event, tmp, engine, scan_result, qkey, tagged, alerts, ret, raised>>

\* handle_infected_file: the MALWARE_DETECTED alert, then handler returns.
AlertMalware(i) ==
    /\ pc[i] = "alert_malware"
    /\ \E published \in BOOLEAN :
         LET r == SendAlertRaises(alertTopicSet, published) IN
         /\ send_alert(i, "MALWARE_DETECTED", "", published)
         /\ IF r = "none"
            THEN /\ ret' = [ret EXCEPT ![i] = <<[statusCode |-> 200, body |-> BodyQuarantined]>>]
                 /\ exc' = exc
                 /\ pc' = [pc EXCEPT ![i] = "done"]
            ELSE /\ ret' = ret
                 /\ exc' = [exc EXCEPT ![i] = r]
                 /\ pc' = [pc EXCEPT ![i] = "alert_qfail"]
    /\ UNCHANGED <<shared, event, tmp, engine, scan_result, qkey, tagged, raised>>

\* handle_infected_file: the except clause, QUARANTINE_FAILED then raise.
AlertQuarantineFailed(i) ==
    /\ pc[i] = "alert_qfail"
    /\ \E published \in BOOLEAN :
         LET r == SendAlertRaises(alertTopicSet, published) IN
         /\ send_alert(i, "QUARANTINE_FAILED", exc[i], published)
         /\ IF r = "none" /\ AfterQuarantineAlert # "except"
            THEN /\ ret' = [ret EXCEPT ![i] = <<[statusCode |-> 200, body |-> BodyQuarantined]>>]
                 /\ exc' = [exc EXCEPT ![i] = "none"]
                 /\ pc' = [pc EXCEPT ![i] = "done"]
            ELSE /\ ret' = ret
                 /\ exc' = [exc EXCEPT ![i] = IF r = "none" THEN @ ELSE r]
                 /\ pc' = [pc EXCEPT ![i] = "except"]
    /\ UNCHANGED <<shared, event, tmp, engine, scan_result, qkey, tagged, raised>>

\* handler: the except clause, SCAN_ERROR then raise.
HandlerExcept(i) ==
    /\ pc[i] = "except"
    /\ \E published \in BOOLEAN :
         LET r == SendAlertRaises(alertTopicSet, published) IN
         /\ send_alert(i, "SCAN_ERROR", exc[i], published)
         /\ exc' = [exc EXCEPT ![i] = IF r = "none" THEN @ ELSE r]
         /\ raised' = [raised EXCEPT ![i] = IF r = "none" THEN exc[i] ELSE r]
    /\ pc' = [pc EXCEPT ![i] = "done"]
    /\ UNCHANGED <<shared, event, tmp, engine, scan_result, qkey, tagged, ret>>

\* The invocation is over; the platform can deliver the next notification
\* for the object (a duplicate or a retry).
NextDelivery(i) ==
    /\ pc[i] = "done"
    /\ pc' = [pc EXCEPT ![i] = "idle"]
    /\ event' = [event EXCEPT ![i] = <<>>]
    /\ engine' = [engine EXCEPT ![i] = <<>>]
    /\ scan_result' = [scan_result EXCEPT ![i] = <<>>]
    /\ exc' = [exc EXCEPT ![i] = "none"]
    /\ qkey' = [qkey EXCEPT ![i] = <<>>]
    /\ tagged' = [tagged EXCEPT ![i] = <<>>]
    /\ alerts' = [alerts EXCEPT ![i] = <<>>]
    /\ trace' = [trace EXCEPT ![i] = <<>>]
    /\ ret' = [ret EXCEPT ![i] = <<>>]
    /\ raised' = [raised EXCEPT ![i] = "none"]
    /\ UNCHANGED <<shared, tmp>>

\* The date changes.
Tick ==
    /\ today < MaxDay
    /\ today' = today + 1
    /\ UNCHANGED <<key, alertTopicSet, srcExists, tags, quarantine, deliveries, locals>>

Step(i) ==
    \/ HandlerEntry(i)
    \/ TagObject(i)
    \/ Download(i)
    \/ RunEngine(i)
    \/ ScratchVanishes(i)
    \/ ScanFinally(i)
    \/ CopyObject(i)
    \/ DeleteObject(i)
    \/ AlertMalware(i)
    \/ AlertQuarantineFailed(i)
    \/ HandlerExcept(i)
    \/ NextDelivery(i)

\* Notifications are handled one at a time, by invocation 1.
Next == Tick \/ Step(1)

Spec == Init /\ [][Next]_vars

\* ---------------------------------------------- concurrent invocations
\* Engine runs on an infected object: clamscan completes with code 1 and
\* names the signature on its standard output.
InfectedRuns ==
    {r \in EngineRuns : /\ r.started
                         /\ r.elapsed <= SCAN_TIMEOUT
                         /\ r.returncode = 1
                         /\ strip(r.stdout) # <<>>}

\* Notifications that send the object to scan_file.
ScanEvents(k) ==
    {e \in Events(k) : e.shape \in {"detail", "Records"} /\ e.size = <<1024>>}

\* Invocation i is handling a notification for an infected object.
InfectedDelivery(i) ==
    /\ event[i] # <<>> => event[i][1] \in ScanEvents(key)
    /\ engine[i] # <<>> => engine[i][1] \in InfectedRuns

\* The object is infected; its key is r.pdf, which is not a media key.
InitInfected ==
    /\ Init
    /\ key = <<"r", ".", "p", "d", "f">>

\* The platform runs the invocations for the object side by side: a
\* duplicate delivery or a retry can start while another invocation for the
\* same object is still in flight, and their calls interleave.
NextConcurrent ==
    \/ Tick
    \/ \E i \in Invocations : Step(i) /\ InfectedDelivery(i)'

SpecConcurrent == InitInfected /\ [][NextConcurrent]_vars

\* ------------------------------------------------- vocabulary of the claims
Done(i) == pc[i] = "done"
Returned(i) == ret[i] # <<>>
Propagated(i) == raised[i] # "none"
Did(i, op) == \E n \in 1..Len(trace[i]) : trace[i][n].op = op
DidOk(i, op) == \E n \in 1..Len(trace[i]) : trace[i][n].op = op /\ trace[i][n].ok
DidFail(i, op) == \E n \in 1..Len(trace[i]) : trace[i][n].op = op /\ ~trace[i][n].ok
Alerted(i, type) == \E n \in 1..Len(alerts[i]) : alerts[i][n].type = type
StorageOps == {"download_file", "put_object_tagging", "copy_object", "delete_object"}
Scanning == {"download", "clamscan", "finally"}
Tagging == {"tag_skipped", "tag_media", "tag_clean"}

\* The engine ran to completion within the timeout and exited with code c.
EngineExit(i, c) ==
    /\ engine[i] # <<>>
    /\ engine[i][1].started
    /\ engine[i][1].elapsed <= SCAN_TIMEOUT
    /\ engine[i][1].returncode = c

\* The engine ran longer than the timeout.
EngineTimedOut(i) ==
    /\ engine[i] # <<>>
    /\ engine[i][1].started
    /\ engine[i][1].elapsed > SCAN_TIMEOUT

\* The download succeeded and clamscan was found missing.
EngineMissing(i) ==
    /\ DidOk(i, "download_file")
    /\ engine[i] = <<>>
    /\ pc[i] # "clamscan"

\* The invocation was given an event of a recognized shape.
Recognized(i) == event[i] # <<>> /\ event[i][1].shape \in {"detail", "Records"}

\* The declared size of the event of invocation i is strictly above the ceiling.
DeclaredAbove(i) ==
    /\ event[i][1].size # <<>>
    /\ event[i][1].size[1] >= MAX_FILE_SIZE + 1

\* The key ends, in any mix of cases, with an extension of the allow-list
\* that follows a file name which is not made of dots only.
HasMediaExtension(k) ==
    \E e \in SKIP_EXTENSIONS :
        /\ Len(k) > Len(e)
        /\ \A n \in 1..Len(e) : LowerChar(k[Len(k) - Len(e) + n]) = e[n]
        /\ \E f \in 1..(Len(k) - Len(e)) :
              /\ k[f] \notin {".", "/"}
              /\ \A m \in f..(Len(k) - Len(e)) : k[m] # "/"

\* ------------------------------------------------------------------ claims

C3_EngineErrorsDegradeOpen ==
    \A i \in Invocations :
        (Done(i) /\ (EngineTimedOut(i) \/ EngineExit(i, 2))) =>
            /\ scan_result[i] # <<>>
            /\ ~scan_result[i][1].infected
            /\ scan_result[i][1].details # <<>>
            /\ Did(i, "put_object_tagging")
            /\ TagValue(tagged[i], "virus-scan") = <<"clean">>
            /\ Returned(i)
            /\ ret[i][1].statusCode = 200
            /\ ~Propagated(i)

C3_Input ==
    /\ Done(1)
    /\ EngineTimedOut(1)

\* The calls of invocation i, in order, without their outcomes.
Ops(i) == [n \in 1..Len(trace[i]) |-> trace[i][n].op]

\* C4: with an engine exit code of 1 the invocation copies the object to
\* the quarantine key (current date, original bucket, key), then deletes
\* the original, then dispatches MALWARE_DETECTED carrying the quarantine
\* location, and only then returns 'Infected file quarantined'; a delete
\* is never issued unless the call just before it was a successful copy.
C4_QuarantineOrder ==
    /\ [](\A i \in Invocations :
            EngineExit(i, 1) =>
                /\ \A n \in 1..Len(trace[i]) :
                      trace[i][n].op = "delete_object" =>
                          /\ n > 1
                          /\ trace[i][n-1] = [op |-> "copy_object", ok |-> TRUE]
                /\ Alerted(i, "MALWARE_DETECTED") =>
                      /\ Ops(i) = <<"download_file", "clamscan", "copy_object",
                                    "delete_object", "send_alert">>
                      /\ \A n \in 1..4 : trace[i][n].ok
                      /\ Len(alerts[i]) = 1
                      /\ alerts[i][1].quarantine_location = qkey[i]
                      /\ qkey[i][1].bucket = Bucket
                      /\ qkey[i][1].key = key
                      /\ \E q \in quarantine : q.Key = qkey[i][1]
                      /\ ~srcExists
                /\ Returned(i) => Alerted(i, "MALWARE_DETECTED") /\ ret[i][1].body = BodyQuarantined)
    /\ [][\A i \in Invocations :
            (pc[i] # "copy" /\ pc'[i] = "copy") =>
                /\ qkey'[i] # <<>>
                /\ qkey'[i][1].prefix = "infected"
                /\ qkey'[i][1].date = today]_vars

C4_Witness ==
    /\ Done(1)
    /\ EngineExit(1, 1)
    /\ Alerted(1, "MALWARE_DETECTED")
    /\ Returned(1)
    /\ qkey[1][1].date = MaxDay

\* C5 as stated: for every key whose extension is in the media allow-list
\* (case-insensitively) and for every declared size, the object is tagged
\* clean with the basic-validation note, is never downloaded, and the scan
\* engine is never invoked.
C5_MediaAnySize ==
    \A i \in Invocations :
        (Recognized(i) /\ HasMediaExtension(key)) =>
            /\ pc[i] \notin Scanning
            /\ ~Did(i, "download_file")
            /\ ~Did(i, "clamscan")
            /\ Done(i) =>
                  /\ TagValue(tagged[i], "virus-scan") = <<"clean">>
                  /\ TagValue(tagged[i], "scan-details") = MediaNote

\* C5 amended: for every key whose extension is in the media allow-list
\* (case-insensitively) and every declared size that does not exceed the
\* ceiling (or is absent), the object is tagged clean with the
\* basic-validation note, is never downloaded, and the scan engine is
\* never invoked.
C5_MediaWithinCeiling ==
    \A i \in Invocations :
        (Recognized(i) /\ HasMediaExtension(key) /\ ~DeclaredAbove(i)) =>
            /\ pc[i] \notin Scanning
            /\ ~Did(i, "download_file")
            /\ ~Did(i, "clamscan")
            /\ Done(i) =>
                  /\ Ops(i) = <<"put_object_tagging">>
                  /\ TagValue(tagged[i], "virus-scan") = <<"clean">>
                  /\ TagValue(tagged[i], "scan-details") = MediaNote
                  /\ trace[i][1].ok => tags = tagged[i]

C5_Witness ==
    /\ Done(1)
    /\ Recognized(1)
    /\ key = <<"d", "/", "v", ".", "M", "p", "4">>
    /\ event[1][1].size = <<MAX_FILE_SIZE>>
    /\ TagValue(tags, "scan-details") = MediaNote

\* C6: for every declared size strictly above the ceiling the object is
\* tagged skipped, handler returns 'File too large - skipped', and neither
\* the download nor the scan engine is invoked, whatever the extension; a
\* declared size equal to the ceiling, or an absent size, does not take
\* this gate.
C6_SizeGate ==
    \A i \in Invocations :
        Recognized(i) =>
            IF DeclaredAbove(i)
            THEN /\ pc[i] \in {"tag_skipped", "done"}
                 /\ ~Did(i, "download_file")
                 /\ ~Did(i, "clamscan")
                 /\ Done(i) =>
                       /\ Ops(i) = <<"put_object_tagging">>
                       /\ TagValue(tagged[i], "virus-scan") = <<"skipped">>
                       /\ ret[i] = <<[statusCode |-> 200, body |-> BodyTooLarge]>>
                       /\ ~Propagated(i)
            ELSE /\ pc[i] # "tag_skipped"
                 /\ TagValue(tagged[i], "virus-scan") # <<"skipped">>
                 /\ Returned(i) => ret[i][1].body # BodyTooLarge

C6_Witness ==
    /\ Done(1)
    /\ Recognized(1)
    /\ DeclaredAbove(1)
    /\ HasMediaExtension(key)
    /\ ret[1] = <<[statusCode |-> 200, body |-> BodyTooLarge]>>
    /\ TagValue(tags, "virus-scan") = <<"skipped">>

\* C7: the scratch file of scan_file does not exist once scan_file has
\* ended, on every exit path (download failure, engine missing, engine
\* exit 0, 1 or other, engine call raising, timeout), and the cleanup
\* raises nothing when the file is already absent.
C7_ScratchRemoved ==
    \A i \in Invocations :
        /\ pc[i] \notin Scanning => ~tmp[i]
        /\ exc[i] \in {"none", "ValueError", "ClientError", "TimeoutExpired", "OSError"}
        /\ (pc[i] \notin Scanning /\ DidOk(i, "clamscan")) => scan_result[i] # <<>>

C7_Witness ==
    /\ pc[1] = "except"
    /\ EngineTimedOut(1)
    /\ exc[1] = "TimeoutExpired"
    /\ ~tmp[1]

C9_MissingEngine ==
    \A i \in Invocations :
        EngineMissing(i) =>
            /\ pc[i] \in {"finally", "tag_clean", "done"}
            /\ exc[i] = "none"
            /\ scan_result[i] = <<[infected |-> FALSE, details |-> NotAvailable]>>
            /\ alerts[i] = <<>>
            /\ Done(i) =>
                  /\ TagValue(tagged[i], "virus-scan") = <<"clean">>
                  /\ Ops(i) = <<"download_file", "put_object_tagging">>
                  /\ ret[i] = <<[statusCode |-> 200, body |-> BodyClean]>>
                  /\ ~Propagated(i)

C9_Witness ==
    /\ Done(1)
    /\ EngineMissing(1)
    /\ TagValue(tags, "virus-scan") = <<"clean">>
    /\ ret[1] = <<[statusCode |-> 200, body |-> BodyClean]>>

\* C10: when the engine ends with an error code (neither 0 nor 1) or is
\* missing, the tag set written to the object carries the scan details
\* (the error or unavailability text), which tells it apart from the tag
\* set of an object the engine scanned and found without threats.
C10_TagsCarryDetails ==
    \A i \in Invocations :
        (Done(i) /\ (EngineExit(i, 2) \/ EngineMissing(i)) /\ Did(i, "put_object_tagging")) =>
            /\ scan_result[i] # <<>>
            /\ TagValue(tagged[i], "scan-details") = Truncate(scan_result[i][1].details, DETAILS_MAX)
            /\ TagValue(tagged[i], "scan-details") # NoThreats
            /\ tagged[i] # MakeTags("clean", TagValue(tagged[i], "scan-date")[1], <<>>)

C10_Input ==
    /\ Done(1)
    /\ EngineExit(1, 2)
    /\ DidOk(1, "put_object_tagging")

Bodies == {BodyTooLarge, BodyMedia, BodyQuarantined, BodyClean}

BodyOfTagged(ts) ==
    IF TagValue(ts, "virus-scan") = <<"skipped">> THEN BodyTooLarge
    ELSE IF TagValue(ts, "scan-details") = MediaNote THEN BodyMedia
    ELSE BodyClean

\* C12: tagging failures are swallowed.  On the skip, media and clean
\* paths handler returns status 200 and the body of the path whether
\* put_object_tagging succeeded or failed; a failed put_object_tagging
\* propagates nothing, dispatches no alert and leaves the tags unwritten.
C12_TaggingSwallowed ==
    /\ [](\A i \in Invocations :
            Did(i, "put_object_tagging") =>
                /\ Done(i)
                /\ ~Propagated(i)
                /\ exc[i] = "none"
                /\ alerts[i] = <<>>
                /\ ret[i] = <<[statusCode |-> 200, body |-> BodyOfTagged(tagged[i])]>>)
    /\ [][\A i \in Invocations :
            (~DidFail(i, "put_object_tagging") /\ DidFail(i, "put_object_tagging")')
                => tags' = tags]_vars

C12_Witness ==
    /\ Done(1)
    /\ DidFail(1, "put_object_tagging")
    /\ srcExists
    /\ ret[1] = <<[statusCode |-> 200, body |-> BodyClean]>>

\* The failure that started the error path of invocation i, read from what
\* the invocation was given and from the calls it made.
OriginalFailure(i) ==
    IF ~Recognized(i) THEN "ValueError"
    ELSE IF DidFail(i, "download_file") \/ DidFail(i, "copy_object")
            \/ DidFail(i, "delete_object") THEN "ClientError"
    ELSE IF EngineTimedOut(i) THEN "TimeoutExpired"
    ELSE IF engine[i] # <<>> /\ ~engine[i][1].started THEN "OSError"
    ELSE "none"

\* Alert n of invocation i went to a configured topic and publish failed.
PublishFailed(i, n) == alertTopicSet /\ ~alerts[i][n].published

AlertTypes(i) == [n \in 1..Len(alerts[i]) |-> alerts[i][n].type]

\* A storage call of handle_infected_file failed in invocation i.
QuarantineStorageFailed(i) == DidFail(i, "copy_object") \/ DidFail(i, "delete_object")

C15_NeverLost ==
    ~srcExists =>
        \E q \in quarantine :
            /\ q.Metadata.original_bucket = Bucket
            /\ q.Metadata.original_key = key
            /\ q.Key.bucket = Bucket
            /\ q.Key.key = key

C15_Witness ==
    /\ ~srcExists
    /\ DidOk(1, "delete_object")
    /\ DidOk(2, "delete_object")
    /\ pc[1] = "done"
    /\ pc[2] = "alert_malware"

====
